---- MODULE Spec2Model ----
(***************************************************************************)
(* A model of Aleph's CoverTree (insertion, traversal, validation) and of  *)
(* its RipsExpander (Vietoris--Rips expansion and weight assignment), both *)
(* from include/aleph/geometry/CoverTree.hh.                               *)
(*                                                                         *)
(* A tree node is the record [point, level, children], children being the  *)
(* sequence of child nodes in stored order; the optional root is a         *)
(* sequence of length 0 (empty tree) or 1.  A place in the tree is a path: *)
(* the sequence of child indices leading to it from the root.              *)
(***************************************************************************)
EXTENDS Integers, Sequences, FiniteSets, Bags, TLC

VARIABLES
  root,      \* CoverTree::_root: <<>> or <<node>>
  inserted,  \* the points handed to CoverTree::insert so far, in call order
  ret,       \* what the last call on the tree returned
  K,         \* the simplicial complex handed to the RipsExpander
  out,       \* the simplicial complex the last RipsExpander call returned
  call       \* the last RipsExpander call and its arguments

vars == <<root, inserted, ret, K, out, call>>

(***************************************************************************)
(* Bounds of the model.                                                    *)
(***************************************************************************)
MaxInserts == 5

\* The largest hand-built tree the validation calls are tried on.
MaxArbNodes == 3

\* Graphs handed to the expander have their vertices in 1..MaxVertex.
MaxVertex == 4

\* The expander is asked for dimensions 0..MaxDim.
MaxDim == 3

\* Weights and vertex values are drawn from 0..MaxWeight.
MaxWeight == 1

\* The stepwise insert makes up to MaxLoopInserts calls.
MaxLoopInserts == 5

\* The level-raising loop is followed up to this root level.
MaxLevel == 8

\* One expander object is called up to MaxCalls times.
MaxCalls == 2

\* isHarmonic is called on the trees of up to MaxHarmonicInserts inserts.
MaxHarmonicInserts == 4

\* The points the insertions draw from (the metric space is the integer line).
Points == {0, 1, 2, 10, 20}

(***************************************************************************)
(* Arithmetic.  Levels may be negative, so coveringConstant^level is kept  *)
(* as an exact fraction <<numerator, denominator>>.                        *)
(***************************************************************************)
coveringConstant == 2

RECURSIVE pow(_, _)
pow(b, e) == IF e <= 0 THEN 1 ELSE b * pow(b, e - 1)

powReal(level) ==
  IF level >= 0 THEN <<pow(coveringConstant, level), 1>>
                ELSE <<1, pow(coveringConstant, -level)>>

\* d <= r and d > r for an integer d and a fraction r
LessEq(d, r) == d * r[2] <= r[1]
Greater(d, r) == d * r[2] > r[1]
Less(d, r) == d * r[2] < r[1]
Twice(r) == <<2 * r[1], r[2]>>

\* The metric of the model: the absolute difference.
Metric(a, b) == IF a >= b THEN a - b ELSE b - a

Min(S) == CHOOSE x \in S : \A y \in S : x <= y

(***************************************************************************)
(* CoverTree::Node                                                         *)
(***************************************************************************)
Node(point, level) == [point |-> point, level |-> level, children |-> <<>>]

coveringDistance(node) == powReal(node.level)

separatingDistance(node) == powReal(node.level - 1)

isLeaf(node) == node.children = <<>>

RECURSIVE NodeAt(_, _)
NodeAt(node, path) ==
  IF path = <<>> THEN node ELSE NodeAt(node.children[Head(path)], Tail(path))

\* An erase that also drops what follows the leaf.
RemoveFromIndex(s, i) == SubSeq(s, 1, i - 1)

RemoveIndex(s, i) == SubSeq(s, 1, i - 1) \o SubSeq(s, i + 1, Len(s))

\* parent->_children.erase( remove_if( ... child.get() == leaf ... ) )
RECURSIVE RemoveAt(_, _)
RemoveAt(node, path) ==
  IF Len(path) = 1
    THEN [node EXCEPT !.children = RemoveIndex(@, path[1])]
    ELSE [node EXCEPT !.children[Head(path)] = RemoveAt(@, Tail(path))]

(***************************************************************************)
(* Node::insert_: the recursive descent.  The point goes into the first    *)
(* child, in stored order, that covers it; with none, it becomes a new     *)
(* last child one level down.                                              *)
(***************************************************************************)
RECURSIVE insert_(_, _)

\* A descent that tests the point against the covering distance of the node
\* it is at instead of the child's.
insert_ByOwnCover(node, p) ==
  LET covering == {i \in 1..Len(node.children) :
                     LessEq(Metric(node.children[i].point, p),
                            coveringDistance(node))}
  IN IF covering # {}
       THEN [node EXCEPT !.children[Min(covering)] = insert_(@, p)]
       ELSE [node EXCEPT !.children = Append(@, Node(p, node.level - 1))]

\* A descent into the nearest child that covers the point instead of the
\* first.
insert_Nearest(node, p) ==
  LET covering == {i \in 1..Len(node.children) :
                     LessEq(Metric(node.children[i].point, p),
                            coveringDistance(node.children[i]))}
      nearest  == {i \in covering : \A j \in covering :
                     Metric(node.children[i].point, p)
                       <= Metric(node.children[j].point, p)}
  IN IF covering # {}
       THEN [node EXCEPT !.children[Min(nearest)] = insert_(@, p)]
       ELSE [node EXCEPT !.children = Append(@, Node(p, node.level - 1))]

insert_(node, p) ==
  LET covering == {i \in 1..Len(node.children) :
                     LessEq(Metric(node.children[i].point, p),
                            coveringDistance(node.children[i]))}
  IN IF covering # {}
       THEN [node EXCEPT !.children[Min(covering)] = insert_(@, p)]
       ELSE [node EXCEPT !.children = Append(@, Node(p, node.level - 1))]

(***************************************************************************)
(* The leaf search of Node::insert (lines 103-134): a stack of nodes, here *)
(* of paths.  Each popped node's children are scanned in stored order:     *)
(* non-leaves are pushed until the first leaf child, which is recorded     *)
(* together with the popped node as its parent; the `break` leaves the     *)
(* scan of that node only, and the search goes on until the stack is       *)
(* empty.  `found` is <<>> (leaf == nullptr) or <<path of the leaf>>.      *)
(***************************************************************************)
RECURSIVE findLeaf(_, _, _)

\* A search that ends at the first leaf it finds.
findLeafFirst(tree, stack, found) ==
  IF stack = <<>> THEN found
  ELSE
    LET path   == stack[Len(stack)]
        rest   == SubSeq(stack, 1, Len(stack) - 1)
        kids   == NodeAt(tree, path).children
        leaves == {i \in 1..Len(kids) : isLeaf(kids[i])}
        pushed == [i \in 1..Len(kids) |-> Append(path, i)]
    IN IF leaves # {} THEN <<Append(path, Min(leaves))>>
       ELSE findLeaf(tree, rest \o pushed, found)

findLeaf(tree, stack, found) ==
  IF stack = <<>> THEN found
  ELSE
    LET path   == stack[Len(stack)]
        rest   == SubSeq(stack, 1, Len(stack) - 1)
        kids   == NodeAt(tree, path).children
        leaves == {i \in 1..Len(kids) : isLeaf(kids[i])}
        stop   == IF leaves = {} THEN Len(kids) + 1 ELSE Min(leaves)
        pushed == [i \in 1..(stop - 1) |-> Append(path, i)]
    IN findLeaf(tree, rest \o pushed,
                IF leaves = {} THEN found ELSE <<Append(path, stop)>>)

\* Wrap the current root below a new root one level higher (lines 179-189,
\* 204-214): the old root keeps its point, level and children.
promote(node, point) ==
  [point |-> point, level |-> node.level + 1, children |-> <<node>>]

\* A leaf promotion that copies the leaf's point without detaching the leaf.
promoteLeafKeepingIt(node, leafPath) ==
  promote(node, NodeAt(node, leafPath).point)

\* One iteration of the level-raising loop on a root that has children:
\* detach the leaf, make its point the new root.
promoteLeaf(node, leafPath) ==
  promote(RemoveAt(node, leafPath), NodeAt(node, leafPath).point)

\* An iteration that raises a childless root by two levels.
raiseStepByTwo(node) ==
  IF isLeaf(node)
    THEN [node EXCEPT !.level = @ + 2]
    ELSE promoteLeaf(node, findLeaf(node, << <<>> >>, <<>>)[1])

\* An iteration that forgets to raise the level of a childless root.
raiseStepKeepingLevel(node) ==
  IF isLeaf(node)
    THEN node
    ELSE promoteLeaf(node, findLeaf(node, << <<>> >>, <<>>)[1])

\* One iteration of the while loop (lines 93-196).
raiseStep(node) ==
  IF isLeaf(node)
    THEN [node EXCEPT !.level = @ + 1]
    ELSE promoteLeaf(node, findLeaf(node, << <<>> >>, <<>>)[1])

\* while( d > 2 * coveringDistance() ) ...  (d is recomputed from the
\* root's point, which changes only when a leaf is promoted)
RECURSIVE raiseLevel(_, _)

\* A loop that is an if: at most one iteration.
raiseLevelOnce(node, p) ==
  IF Greater(Metric(node.point, p), Twice(coveringDistance(node)))
    THEN raiseStep(node)
    ELSE node

raiseLevel(node, p) ==
  IF Greater(Metric(node.point, p), Twice(coveringDistance(node)))
    THEN raiseLevel(raiseStep(node), p)
    ELSE node

\* The root at each test of the loop condition, the last being the root the
\* loop ends with.
RECURSIVE raiseTrace(_, _)
raiseTrace(node, p) ==
  IF Greater(Metric(node.point, p), Twice(coveringDistance(node)))
    THEN <<node>> \o raiseTrace(raiseStep(node), p)
    ELSE <<node>>

\* An insert that makes a far point the new root without raising the level
\* of the tree first.
nodeInsertWithoutRaise(node, p) ==
  IF Greater(Metric(node.point, p), coveringDistance(node))
    THEN promote(node, p)
    ELSE insert_(node, p)

\* An insert that grows the tree only for a point beyond twice the covering
\* distance of the root.
nodeInsertBeyondTwice(node, p) ==
  IF Greater(Metric(node.point, p), Twice(coveringDistance(node)))
    THEN promote(raiseLevel(node, p), p)
    ELSE insert_(node, p)

\* Node::insert
nodeInsert(node, p) ==
  IF Greater(Metric(node.point, p), coveringDistance(node))
    THEN promote(raiseLevel(node, p), p)
    ELSE insert_(node, p)

\* An insert that creates the first node one level up.
insertFirstAtLevelOne(r, p) ==
  IF r = <<>> THEN <<Node(p, 1)>> ELSE <<nodeInsert(r[1], p)>>

\* CoverTree::insert
insert(r, p) == IF r = <<>> THEN <<Node(p, 0)>> ELSE <<nodeInsert(r[1], p)>>

(***************************************************************************)
(* Traversal                                                               *)
(***************************************************************************)
RECURSIVE Flatten(_)
Flatten(ss) == IF ss = <<>> THEN <<>> ELSE Head(ss) \o Flatten(Tail(ss))

\* CoverTree::points on a tree with a root: breadth-first, queue of nodes.
RECURSIVE bfs(_, _)
bfs(queue, result) ==
  IF queue = <<>> THEN result
  ELSE bfs(Tail(queue) \o Head(queue).children, Append(result, Head(queue).point))

points(r) == bfs(<<r[1]>>, <<>>)

\* CoverTree::level
level(r) == IF r # <<>> THEN r[1].level ELSE 0

(***************************************************************************)
(* Validation, on a tree with a root.  Each scan handles the queue one     *)
(* generation (n = nodes.size()) at a time.                                *)
(***************************************************************************)
ChildrenOf(queue) == Flatten([i \in 1..Len(queue) |-> queue[i].children])

RECURSIVE levelScan(_, _)
levelScan(queue, lvl) ==
  IF queue = <<>> THEN TRUE
  ELSE IF \E i \in 1..Len(queue) : queue[i].level # lvl - 1 THEN FALSE
  ELSE levelScan(ChildrenOf(queue), lvl - 1)

checkLevelInvariant(r) == levelScan(<<r[1]>>, r[1].level + 1)

RECURSIVE coveringScan(_)
coveringScan(queue) ==
  IF queue = <<>> THEN TRUE
  ELSE IF \E i \in 1..Len(queue) : \E j \in 1..Len(queue[i].children) :
            Greater(Metric(queue[i].point, queue[i].children[j].point),
                    coveringDistance(queue[i]))
    THEN FALSE
  ELSE coveringScan(ChildrenOf(queue))

checkCoveringInvariant(r) == coveringScan(<<r[1]>>)

RECURSIVE separatingScan(_)

\* A scan that accepts siblings exactly at the separating distance.
separatingScanStrict(queue) ==
  IF queue = <<>> THEN TRUE
  ELSE IF \E i \in 1..Len(queue) :
            \E it1 \in 1..Len(queue[i].children) :
              \E it2 \in (it1 + 1)..Len(queue[i].children) :
                Less(Metric(queue[i].children[it1].point,
                            queue[i].children[it2].point),
                     separatingDistance(queue[i]))
    THEN FALSE
  ELSE separatingScan(ChildrenOf(queue))

separatingScan(queue) ==
  IF queue = <<>> THEN TRUE
  ELSE IF \E i \in 1..Len(queue) :
            \E it1 \in 1..Len(queue[i].children) :
              \E it2 \in (it1 + 1)..Len(queue[i].children) :
                LessEq(Metric(queue[i].children[it1].point,
                              queue[i].children[it2].point),
                       separatingDistance(queue[i]))
    THEN FALSE
  ELSE separatingScan(ChildrenOf(queue))

checkSeparatingInvariant(r) == separatingScan(<<r[1]>>)

isValid(r) ==
  checkLevelInvariant(r) /\ checkCoveringInvariant(r) /\ checkSeparatingInvariant(r)

(***************************************************************************)
(* The state machine of one CoverTree object.                              *)
(***************************************************************************)
NoComplex == <<>>
NoCall == [op |-> "none"]

Returned(op, value) == [op |-> op, fault |-> FALSE, value |-> value]
Fault(op) == [op |-> op, fault |-> TRUE, value |-> FALSE]

Init ==
  /\ root = <<>>
  /\ inserted = <<>>
  /\ ret = Returned("new", TRUE)
  /\ K = NoComplex
  /\ out = NoComplex
  /\ call = NoCall

Insert(p) ==
  /\ Len(inserted) < MaxInserts
  /\ root' = insert(root, p)
  /\ inserted' = Append(inserted, p)
  /\ ret' = Returned("insert", TRUE)
  /\ UNCHANGED <<K, out, call>>

\* A validation call.  On the empty tree each of the four dereferences the
\* null root (_root->_level, node->_children): undefined behaviour, so the
\* call may fault or return either boolean.
Validate(op, value) ==
  /\ IF root = <<>>
       THEN ret' \in {Fault(op), Returned(op, TRUE), Returned(op, FALSE)}
       ELSE ret' = Returned(op, value)
  /\ UNCHANGED <<root, inserted, K, out, call>>

CheckLevelInvariant == Validate("checkLevelInvariant", checkLevelInvariant(root))

CheckCoveringInvariant == Validate("checkCoveringInvariant", checkCoveringInvariant(root))

CheckSeparatingInvariant == Validate("checkSeparatingInvariant", checkSeparatingInvariant(root))

IsValid == Validate("isValid", isValid(root))

\* CoverTree::level, which tests the root before it reads it.
Level ==
  /\ ret' = Returned("level", level(root))
  /\ UNCHANGED <<root, inserted, K, out, call>>

Next ==
  \/ \E p \in Points : Insert(p)
  \/ CheckLevelInvariant
  \/ CheckCoveringInvariant
  \/ CheckSeparatingInvariant
  \/ IsValid
  \/ Level

Spec == Init /\ [][Next]_vars

(***************************************************************************)
(* Validation of trees of any shape and any levels.  Node's fields are     *)
(* public, so a caller can hand the checks any finite tree; SpecArb starts *)
(* from every tree of at most MaxArbNodes nodes over ArbPoints and         *)
(* ArbLevels.                                                              *)
(***************************************************************************)
ArbPoints == {0, 1, 3}
ArbLevels == {0, 1, 2}

RECURSIVE Trees(_)
RECURSIVE Forests(_)
Trees(n) ==
  {[point |-> pt, level |-> lv, children |-> f] :
     pt \in ArbPoints, lv \in ArbLevels, f \in Forests(n - 1)}

Forests(n) ==
  IF n = 0 THEN {<<>>}
  ELSE UNION {{<<t>> \o f : t \in Trees(j), f \in Forests(n - j)} : j \in 1..n}

InitArb ==
  /\ root \in {<<t>> : t \in UNION {Trees(n) : n \in 1..MaxArbNodes}}
  /\ inserted = <<>>
  /\ ret = Returned("new", TRUE)
  /\ K = NoComplex
  /\ out = NoComplex
  /\ call = NoCall

NextArb ==
  \/ CheckLevelInvariant
  \/ CheckCoveringInvariant
  \/ CheckSeparatingInvariant
  \/ IsValid

SpecArb == InitArb /\ [][NextArb]_vars

(***************************************************************************)
(* Simplex and SimplicialComplex, as the RipsExpander uses them.  A        *)
(* simplex is [vertices, data]: its set of vertices and its weight; a      *)
(* complex is the sequence of its simplices in container order.            *)
(***************************************************************************)
Max(S) == CHOOSE x \in S : \A y \in S : x >= y

RECURSIVE SortedSeq(_)
SortedSeq(S) == IF S = {} THEN <<>> ELSE <<Min(S)>> \o SortedSeq(S \ {Min(S)})

\* The weight of a simplex constructed without one: DataType().
DefaultData == 0

Simplex(vs) == [vertices |-> vs, data |-> DefaultData]

dimension(s) == Cardinality(s.vertices) - 1

\* Simplex::begin_boundary .. end_boundary: the faces of codimension 1.
boundary(s) ==
  IF dimension(s) <= 0 THEN {} ELSE {s.vertices \ {v} : v \in s.vertices}

\* *( it->begin() ) and *( it->begin() + 1 ) of an edge
firstVertex(s) == Max(s.vertices)
secondVertex(s) == Max(s.vertices \ {firstVertex(s)})

\* SimplicialComplex::find: <<>> (end()) or the stored simplex with these
\* vertices.
find(C, vs) ==
  LET hits == {i \in 1..Len(C) : C[i].vertices = vs}
  IN IF hits = {} THEN <<>> ELSE <<C[Min(hits)]>>

\* SimplicialComplex::vertices
vertices(C) == UNION {C[i].vertices : i \in 1..Len(C)}

OfDimension(C, d) ==
  LET Test(s) == dimension(s) = d IN SelectSeq(C, Test)

\* SimplicialComplex::range( 1 )
range1(C) == OfDimension(C, 1)

\* begin_dimension() .. end_dimension(): by dimension, container order within
RECURSIVE byDimension(_, _)
byDimension(C, d) ==
  IF \A i \in 1..Len(C) : dimension(C[i]) < d THEN <<>>
  ELSE OfDimension(C, d) \o byDimension(C, d + 1)

(***************************************************************************)
(* RipsExpander                                                            *)
(***************************************************************************)
\* getLowerNeighbours: a map (a function on its keys) from a vertex to the
\* set of its neighbours with a smaller identifier.
RECURSIVE lowerNeighboursOf(_, _)
lowerNeighboursOf(edges, map) ==
  IF edges = <<>> THEN map
  ELSE
    LET u  == firstVertex(Head(edges))
        v  == secondVertex(Head(edges))
        hi == IF u < v THEN v ELSE u
        lo == IF u < v THEN u ELSE v
    IN lowerNeighboursOf(Tail(edges),
         [x \in DOMAIN map \cup {hi} |->
            IF x = hi
              THEN (IF hi \in DOMAIN map THEN map[hi] ELSE {}) \cup {lo}
              ELSE map[x]])

\* A map that files every edge under its smaller endpoint.
getUpperNeighbours(C) ==
  LET E == range1(C)
  IN [x \in {secondVertex(E[i]) : i \in 1..Len(E)} |->
        {firstVertex(E[i]) : i \in {j \in 1..Len(E) : secondVertex(E[j]) = x}}]

getLowerNeighbours(C) == lowerNeighboursOf(range1(C), <<>>)

\* An intersection that forgets the second set.
intersectFirstOnly(U, V) == U

\* intersect: scan the smaller set, keep what the other one holds.
intersect(U, V) ==
  IF Cardinality(U) > Cardinality(V)
    THEN {u \in V : u \in U}
    ELSE {u \in U : u \in V}

\* The order in which an unordered_set is iterated is not specified: the
\* elements of `set` come in the order in which `order`, a sequence holding
\* every vertex once, lists them.
\* An iteration that stops after the first element.
IterateFirst(set, order) ==
  LET Test(v) == v \in set IN SubSeq(SelectSeq(order, Test), 1, 1)

Iterate(set, order) ==
  LET Test(v) == v \in set IN SelectSeq(order, Test)

\* addCofaces; `todo` is what the for loop over `neighbours` has left.
RECURSIVE addCofaces(_, _, _, _, _, _)
RECURSIVE addCofacesLoop(_, _, _, _, _, _, _)
addCofacesLoop(s, lowerNeighboursMap, neighbours, todo, simplices, dim, order) ==
  IF todo = <<>> THEN simplices
  ELSE
    LET neighbour == Head(todo)
        coface    == Simplex(s.vertices \cup {neighbour})
        pushed    == Append(simplices, coface)
        after     ==
          IF neighbour \in DOMAIN lowerNeighboursMap
            THEN addCofaces(coface, lowerNeighboursMap,
                            intersect(lowerNeighboursMap[neighbour], neighbours),
                            pushed, dim, order)
            ELSE pushed
    IN addCofacesLoop(s, lowerNeighboursMap, neighbours, Tail(todo), after, dim, order)

\* A recursion that stops one dimension early.
addCofacesStopEarly(s, lowerNeighboursMap, neighbours, simplices, dim, order) ==
  IF dimension(s) + 1 >= dim THEN simplices
  ELSE addCofacesLoop(s, lowerNeighboursMap, neighbours,
                      Iterate(neighbours, order), simplices, dim, order)

addCofaces(s, lowerNeighboursMap, neighbours, simplices, dim, order) ==
  IF dimension(s) >= dim THEN simplices
  ELSE addCofacesLoop(s, lowerNeighboursMap, neighbours,
                      Iterate(neighbours, order), simplices, dim, order)

\* The loop over the vertices in increasing order (lines 834-846).
RECURSIVE expandVertices(_, _, _, _, _)
expandVertices(todo, lowerNeighbours, simplices, dim, order) ==
  IF todo = <<>> THEN simplices
  ELSE
    LET vertex == Head(todo)
        pushed == Append(simplices, Simplex({vertex}))
        after  ==
          IF vertex \in DOMAIN lowerNeighbours
            THEN addCofaces(Simplex({vertex}), lowerNeighbours,
                            lowerNeighbours[vertex], pushed, dim, order)
            ELSE pushed
    IN expandVertices(Tail(todo), lowerNeighbours, after, dim, order)

\* A back-fill that looks up simplices of every dimension.
backFillAll(simplices, C) ==
  [i \in 1..Len(simplices) |->
     IF find(C, simplices[i].vertices) # <<>>
       THEN [simplices[i] EXCEPT !.data = find(C, simplices[i].vertices)[1].data]
       ELSE simplices[i]]

\* The weights of the simplices of dimension <= 1 that the original complex
\* holds (lines 858-867).
backFill(simplices, C) ==
  [i \in 1..Len(simplices) |->
     IF dimension(simplices[i]) <= 1 /\ find(C, simplices[i].vertices) # <<>>
       THEN [simplices[i] EXCEPT !.data = find(C, simplices[i].vertices)[1].data]
       ELSE simplices[i]]

\* RipsExpander::operator()
expand(C, dim, order) ==
  backFill(expandVertices(SortedSeq(vertices(C)), getLowerNeighbours(C),
                          <<>>, dim, order),
           C)

(***************************************************************************)
(* Weight assignment                                                       *)
(***************************************************************************)
\* The loop of assignMaximumWeight over `todo`, S being the complex built so
\* far: a simplex above minDimension gets the largest of its own weight and
\* of the weights of those of its faces that S holds.
RECURSIVE maximumWeightLoop(_, _, _)
maximumWeightLoop(todo, S, minDimension) ==
  IF todo = <<>> THEN S
  ELSE
    LET s == Head(todo)
        w == Max({s.data} \cup
                 {find(S, face)[1].data :
                    face \in {f \in boundary(s) : find(S, f) # <<>>}})
    IN maximumWeightLoop(Tail(todo),
         Append(S, IF dimension(s) > minDimension THEN [s EXCEPT !.data = w] ELSE s),
         minDimension)

\* The same loop, starting from the lowest weight instead of the simplex's own.
RECURSIVE maximumWeightLoopFromLowest(_, _, _)
maximumWeightLoopFromLowest(todo, S, minDimension) ==
  IF todo = <<>> THEN S
  ELSE
    LET s == Head(todo)
        faces == {find(S, face)[1].data :
                    face \in {f \in boundary(s) : find(S, f) # <<>>}}
        w == IF faces = {} THEN s.data ELSE Max(faces)
    IN maximumWeightLoopFromLowest(Tail(todo),
         Append(S, IF dimension(s) > minDimension THEN [s EXCEPT !.data = w] ELSE s),
         minDimension)

assignMaximumWeightFromLowest(C, minDimension) ==
  maximumWeightLoopFromLowest(byDimension(C, 0), <<>>, minDimension)

\* A pass over the complex in container order instead of by dimension.
assignMaximumWeightInContainerOrder(C, minDimension) ==
  maximumWeightLoop(C, <<>>, minDimension)

\* RipsExpander::assignMaximumWeight
assignMaximumWeight(C, minDimension) ==
  maximumWeightLoop(byDimension(C, 0), <<>>, minDimension)

\* vertexToIndex: the rank of each vertex among the vertices of the complex
vertexToIndex(C) ==
  [v \in vertices(C) |-> Cardinality({u \in vertices(C) : u < v})]

\* The functors the callers pass: std::max and std::min, by name.
Apply(functor, a, b) ==
  CASE functor = "max" -> (IF a >= b THEN a ELSE b)
    [] functor = "min" -> (IF a <= b THEN a ELSE b)

\* data = functor( data, dataValues[ vertexToIndex[v] ] ) over the vertices
\* of a simplex; dataValues is indexed from 0, a sequence from 1.
RECURSIVE combine(_, _, _, _, _)
combine(vs, index, dataValues, data, functor) ==
  IF vs = {} THEN data
  ELSE combine(vs \ {Max(vs)}, index, dataValues,
               Apply(functor, data, dataValues[index[Max(vs)] + 1]), functor)

\* RipsExpander::assignData
assignData(C, dataValues, init, functor) ==
  [i \in 1..Len(C) |->
     [C[i] EXCEPT !.data = combine(C[i].vertices, vertexToIndex(C), dataValues,
                                   init, functor)]]

\* std::numeric_limits<DataType>::lowest(), DataType taken as a 16-bit integer
lowest == -32768

\* A wrapper that starts from DataType() instead of the lowest value.
assignMaximumDataFromDefault(C, dataValues) ==
  assignData(C, dataValues, DefaultData, "max")

\* RipsExpander::assignMaximumData
assignMaximumData(C, dataValues) ==
  assignData(C, dataValues, lowest, "max")

(***************************************************************************)
(* The complexes the RipsExpander is handed.  Each is face-closed up to    *)
(* its edges (every edge's vertices are 0-simplices of it) and holds no    *)
(* simplex twice; its container order is by falling Key, which puts a      *)
(* simplex before its faces.  A triangle may lack edges where that is      *)
(* said.                                                                   *)
(*   Graphs:   every graph on a subset of 1..MaxVertex, the weight of a    *)
(*             simplex being the sum of its vertices;                      *)
(*   Weighted: every graph on a subset of WVertices, with or without       *)
(*             triangles, every simplex with any weight of W.              *)
(***************************************************************************)
WVertices == {1, 2, 3}

RECURSIVE Sum(_)
Sum(S) == IF S = {} THEN 0 ELSE LET x == CHOOSE y \in S : TRUE IN x + Sum(S \ {x})

Key(vs) == Sum({pow(2, v) : v \in vs})

RECURSIVE SeqByKey(_)
SeqByKey(SS) ==
  IF SS = {} THEN <<>>
  ELSE LET m == CHOOSE x \in SS : \A y \in SS : Key(x.vertices) >= Key(y.vertices)
       IN <<m>> \o SeqByKey(SS \ {m})

Pairs(V) == {e \in SUBSET V : Cardinality(e) = 2}

IsClique(S, E) == \A a, b \in S : a # b => {a, b} \in E

\* The sets of simplices: vertices V, edges E between them, and triangles T
\* on them: none, any whose edges are all in E ("closed"), or any at all.
Triangles(V, E, kind) ==
  CASE kind = "none"   -> {}
    [] kind = "closed" -> {t \in SUBSET V : Cardinality(t) = 3 /\ IsClique(t, E)}
    [] kind = "any"    -> {t \in SUBSET V : Cardinality(t) = 3}

Skeletons(U, kind) ==
  UNION {UNION {{{{v} : v \in V} \cup E \cup T : T \in SUBSET Triangles(V, E, kind)} :
                E \in SUBSET Pairs(V)} :
         V \in SUBSET U}

SumWeighted(SS) == SeqByKey({[vertices |-> vs, data |-> Sum(vs)] : vs \in SS})

Graphs == {SumWeighted(SS) : SS \in Skeletons(1..MaxVertex, "none")}

WeightedBy(SS, w) == SeqByKey({[vertices |-> vs, data |-> w[vs]] : vs \in SS})

Weighted(kind, W) ==
  UNION {{WeightedBy(SS, w) : w \in [SS -> W]} : SS \in Skeletons(WVertices, kind)}

\* The iteration orders tried.  Up to three vertices: every order.  Beyond:
\* ascending, descending, and the odd vertices before the even ones.
RECURSIVE AllOrders(_)
AllOrders(S) ==
  IF S = {} THEN {<<>>}
  ELSE UNION {{<<v>> \o o : o \in AllOrders(S \ {v})} : v \in S}

Reverse(seq) == [i \in 1..Len(seq) |-> seq[Len(seq) + 1 - i]]

Orders(S) ==
  IF Cardinality(S) <= Cardinality(WVertices)
    THEN AllOrders(S)
    ELSE {SortedSeq(S), Reverse(SortedSeq(S)),
          SortedSeq({v \in S : v % 2 = 1}) \o SortedSeq({v \in S : v % 2 = 0})}

InitRips ==
  /\ root = <<>>
  /\ inserted = <<>>
  /\ ret = Returned("new", TRUE)
  /\ K \in Graphs \cup Weighted("closed", 0..MaxWeight)
  /\ out = NoComplex
  /\ call = NoCall

\* The expander keeps no state between calls, and each call is a function of
\* its arguments: a behaviour makes one call.
Expand ==
  \E dim \in 0..MaxDim : \E order \in Orders(vertices(K)) :
    /\ call = NoCall
    /\ out' = expand(K, dim, order)
    /\ call' = [op |-> "expand", dimension |-> dim]
    /\ UNCHANGED <<root, inserted, ret, K>>

NextRips == Expand

SpecRips == InitRips /\ [][NextRips]_vars

(***************************************************************************)
(* assignMaximumWeight on complexes with any weights; a triangle may lack  *)
(* edges.                                                                  *)
(***************************************************************************)
Weights == -1..MaxWeight

InitWeights ==
  /\ root = <<>>
  /\ inserted = <<>>
  /\ ret = Returned("new", TRUE)
  /\ \E SS \in Skeletons(WVertices, "any") : \E w \in [SS -> Weights] :
       K = WeightedBy(SS, w)
  /\ out = NoComplex
  /\ call = NoCall

AssignMaximumWeight ==
  \E minDimension \in 0..MaxDim :
    /\ call = NoCall
    /\ out' = assignMaximumWeight(K, minDimension)
    /\ call' = [op |-> "assignMaximumWeight", minDimension |-> minDimension]
    /\ UNCHANGED <<root, inserted, ret, K>>

NextWeights == AssignMaximumWeight

SpecWeights == InitWeights /\ [][NextWeights]_vars

(***************************************************************************)
(* assignMaximumData with one value of Weights per vertex of the complex.  *)
(***************************************************************************)
InitData ==
  /\ root = <<>>
  /\ inserted = <<>>
  /\ ret = Returned("new", TRUE)
  /\ K \in {SumWeighted(SS) : SS \in Skeletons(WVertices, "any")}
  /\ out = NoComplex
  /\ call = NoCall

AssignMaximumData ==
  \E dataValues \in [1..Cardinality(vertices(K)) -> Weights] :
    /\ call = NoCall
    /\ out' = assignMaximumData(K, dataValues)
    /\ call' = [op |-> "assignMaximumData", dataValues |-> dataValues]
    /\ UNCHANGED <<root, inserted, ret, K>>

NextData == AssignMaximumData

SpecData == InitData /\ [][NextData]_vars

(***************************************************************************)
(* The data model's invariants, stated over every parent and child of a    *)
(* tree rather than by a scan.                                             *)
(***************************************************************************)
RECURSIVE Paths(_)
Paths(node) ==
  {<<>>} \cup UNION {{<<i>> \o q : q \in Paths(node.children[i])} :
                       i \in 1..Len(node.children)}

Parents(node) == {NodeAt(node, q) : q \in Paths(node)}

LevelInvariant(node) ==
  \A n \in Parents(node) : \A i \in 1..Len(n.children) :
    n.children[i].level = n.level - 1

CoveringInvariant(node) ==
  \A n \in Parents(node) : \A i \in 1..Len(n.children) :
    LessEq(Metric(n.point, n.children[i].point), powReal(n.level))

SeparatingInvariant(node) ==
  \A n \in Parents(node) : \A i, j \in 1..Len(n.children) :
    i # j => Greater(Metric(n.children[i].point, n.children[j].point),
                     powReal(n.level - 1))

Count(seq, x) == Cardinality({i \in 1..Len(seq) : seq[i] = x})

\* The tree that a sequence of insert calls builds from the empty tree.
RECURSIVE Build(_)
Build(seq) ==
  IF seq = <<>> THEN <<>>
  ELSE insert(Build(SubSeq(seq, 1, Len(seq) - 1)), seq[Len(seq)])

\* The last insert call ran the level-raising loop on a root with children,
\* that is, it promoted a leaf.
LastInsertPromotedLeaf ==
  /\ Len(inserted) >= 2
  /\ LET before == Build(SubSeq(inserted, 1, Len(inserted) - 1))[1]
         p      == inserted[Len(inserted)]
     IN /\ ~isLeaf(before)
        /\ Greater(Metric(before.point, p), Twice(coveringDistance(before)))

(***************************************************************************)
(* C1: after every insertion of any sequence of insertions into the empty  *)
(* tree, the level, covering and separating invariants all hold.           *)
(***************************************************************************)
C1_InsertKeepsInvariants ==
  root # <<>> =>
    /\ LevelInvariant(root[1])
    /\ CoveringInvariant(root[1])
    /\ SeparatingInvariant(root[1])

\* A tree that has grown (its root was replaced), with siblings and with
\* depth.
C1_Witness ==
  /\ root # <<>>
  /\ root[1].level > 0
  /\ \E n \in Parents(root[1]) : Len(n.children) >= 2
  /\ \E q \in Paths(root[1]) : Len(q) >= 2

(***************************************************************************)
(* C2: after N >= 1 insertions points() lists N points, and each point as  *)
(* often as it was inserted.                                               *)
(***************************************************************************)
C2_PointsComplete ==
  root # <<>> =>
    /\ Len(points(root)) = Len(inserted)
    /\ \A p \in Points : Count(points(root), p) = Count(inserted, p)

\* A point inserted twice, in a tree whose last insert promoted a leaf.
C2_Witness ==
  /\ LastInsertPromotedLeaf
  /\ \E p \in Points : Count(inserted, p) >= 2

\* The graph a complex gives, and its cliques with at most D + 1 vertices.
VertexSet(C) == {v \in vertices(C) : \E i \in 1..Len(C) : C[i].vertices = {v}}
EdgeSet(C) == {C[i].vertices : i \in {j \in 1..Len(C) : Cardinality(C[j].vertices) = 2}}

Cliques(V, E, D) ==
  {S \in SUBSET V : S # {} /\ Cardinality(S) <= D + 1 /\ IsClique(S, E)}

(***************************************************************************)
(* C3: the expansion of a graph (V, E) to dimension D lists exactly the    *)
(* cliques of the graph with at most D + 1 vertices, each of them once.    *)
(***************************************************************************)
C3_RipsComplete ==
  call.op = "expand" =>
    /\ {out[i].vertices : i \in 1..Len(out)}
         = Cliques(VertexSet(K), EdgeSet(K), call.dimension)
    /\ \A i, j \in 1..Len(out) : out[i].vertices = out[j].vertices => i = j

\* The complete graph on four vertices expanded to dimension 2: 4 vertices,
\* 6 edges, 4 triangles, and not the tetrahedron.
C3_Witness ==
  /\ call.op = "expand"
  /\ call.dimension = 2
  /\ Cardinality(EdgeSet(K)) = 6
  /\ Len(out) = 14

\* Simplices of a complex by vertex set, and boundary faces as vertex sets.
Holds(C, vs) == \E i \in 1..Len(C) : C[i].vertices = vs
WeightIn(C, vs) == C[CHOOSE i \in 1..Len(C) : C[i].vertices = vs].data

FaceClosed(C) ==
  \A i \in 1..Len(C) : \A v \in C[i].vertices :
    Cardinality(C[i].vertices) >= 2 => Holds(C, C[i].vertices \ {v})

FacesOf(vs) == IF Cardinality(vs) <= 1 THEN {} ELSE {vs \ {v} : v \in vs}

HeldFaces(C, vs) == {f \in FacesOf(vs) : Holds(C, f)}

(***************************************************************************)
(* C4, as claimed: after assignMaximumWeight on a face-closed complex, for *)
(* every minDimension, no boundary face of any simplex is heavier than the *)
(* simplex.  Violated: an edge at or below minDimension keeps a weight     *)
(* smaller than that of its vertex.                                        *)
(***************************************************************************)
C4_MonotoneEverywhere ==
  (call.op = "assignMaximumWeight" /\ FaceClosed(K)) =>
    \A i \in 1..Len(out) : \A f \in FacesOf(out[i].vertices) :
      WeightIn(out, f) <= out[i].data

(***************************************************************************)
(* C4, as the code has it: after assignMaximumWeight on a face-closed      *)
(* complex no boundary face of a simplex of dimension above minDimension   *)
(* is heavier than the simplex.                                            *)
(***************************************************************************)
C4_MonotoneAboveMinDimension ==
  (call.op = "assignMaximumWeight" /\ FaceClosed(K)) =>
    \A i \in 1..Len(out) : \A f \in FacesOf(out[i].vertices) :
      Cardinality(out[i].vertices) - 1 > call.minDimension =>
        WeightIn(out, f) <= out[i].data

\* A face-closed triangle whose edges were lighter than a vertex and whose
\* own weight was the smallest: all of it recomputed (minDimension 0).
C4_Witness ==
  /\ call.op = "assignMaximumWeight"
  /\ call.minDimension = 0
  /\ FaceClosed(K)
  /\ \E i \in 1..Len(K) :
       /\ Cardinality(K[i].vertices) = 3
       /\ K[i].data = -1
       /\ \E f \in FacesOf(K[i].vertices) : \E g \in FacesOf(f) :
            WeightIn(K, g) > WeightIn(K, f) /\ WeightIn(K, g) > K[i].data

(***************************************************************************)
(* C5, as claimed: assignMaximumWeight gives a simplex above minDimension  *)
(* the largest of the recomputed weights of its boundary faces, whatever   *)
(* its own weight in K, and leaves the others their weight in K.           *)
(* Violated: a simplex heavier in K than its faces keeps its own weight.   *)
(***************************************************************************)
C5_MaxOfFacesOnly ==
  call.op = "assignMaximumWeight" =>
    /\ Len(out) = Len(K)
    /\ \A i \in 1..Len(out) :
         /\ Holds(K, out[i].vertices)
         /\ IF Cardinality(out[i].vertices) - 1 > call.minDimension
              THEN HeldFaces(out, out[i].vertices) # {} =>
                     out[i].data
                       = Max({WeightIn(out, f) : f \in HeldFaces(out, out[i].vertices)})
              ELSE out[i].data = WeightIn(K, out[i].vertices)

(***************************************************************************)
(* C5, as the code has it: assignMaximumWeight gives a simplex above       *)
(* minDimension the largest of its own weight in K and of the recomputed   *)
(* weights of its boundary faces that the complex holds, and leaves the    *)
(* others their weight in K.                                               *)
(***************************************************************************)
C5_MaxOfOwnAndFaces ==
  call.op = "assignMaximumWeight" =>
    /\ Len(out) = Len(K)
    /\ \A i \in 1..Len(out) :
         /\ Holds(K, out[i].vertices)
         /\ IF Cardinality(out[i].vertices) - 1 > call.minDimension
              THEN out[i].data
                     = Max({WeightIn(K, out[i].vertices)} \cup
                           {WeightIn(out, f) : f \in HeldFaces(out, out[i].vertices)})
              ELSE out[i].data = WeightIn(K, out[i].vertices)

\* A triangle that got its weight from an edge that got it from a vertex,
\* beside an edge that kept its own weight.
C5_Witness ==
  /\ call.op = "assignMaximumWeight"
  /\ call.minDimension = 0
  /\ \E i \in 1..Len(out) :
       /\ Cardinality(out[i].vertices) = 3
       /\ out[i].data > WeightIn(K, out[i].vertices)
       /\ \E f \in HeldFaces(out, out[i].vertices) :
            /\ WeightIn(out, f) = out[i].data
            /\ WeightIn(out, f) > WeightIn(K, f)
       /\ \E f \in HeldFaces(out, out[i].vertices) :
            /\ WeightIn(out, f) = WeightIn(K, f)
            /\ \A g \in HeldFaces(out, f) : WeightIn(out, g) < WeightIn(out, f)

\* The value of a vertex: the entry at its rank among the vertices of K.
ValueOf(v) == call.dataValues[Cardinality({u \in vertices(K) : u < v}) + 1]

(***************************************************************************)
(* C6: assignMaximumData keeps the simplices of K and gives each, of every *)
(* dimension, the largest of the values of its vertices, the value of a    *)
(* vertex being the entry at its rank among the vertices of K.             *)
(***************************************************************************)
C6_MaximumData ==
  call.op = "assignMaximumData" =>
    /\ Len(out) = Len(K)
    /\ \A i \in 1..Len(out) :
         /\ out[i].vertices = K[i].vertices
         /\ out[i].data = Max({ValueOf(v) : v \in out[i].vertices})

\* Vertices 1 and 3 without vertex 2 (so the rank of 3 is not 3 - 1), the
\* value of vertex 3 negative, an edge in the complex.
C6_Witness ==
  /\ call.op = "assignMaximumData"
  /\ vertices(K) = {1, 3}
  /\ Holds(out, {1, 3})
  /\ call.dataValues = <<0, -1>>
  /\ WeightIn(out, {3}) = -1
  /\ WeightIn(out, {1, 3}) = 0

(***************************************************************************)
(* C7: in the expansion every simplex of dimension <= 1 that K holds has   *)
(* the weight it has in K; every simplex of dimension >= 2 has the default *)
(* weight, also when K holds it with another weight.                       *)
(***************************************************************************)
C7_WeightBackFill ==
  call.op = "expand" =>
    \A i \in 1..Len(out) :
      /\ Cardinality(out[i].vertices) <= 2 =>
           \A j \in 1..Len(K) :
             K[j].vertices = out[i].vertices => out[i].data = K[j].data
      /\ Cardinality(out[i].vertices) >= 3 => out[i].data = DefaultData

\* K holds a triangle with a weight of its own and an edge with one, and
\* the expansion holds both simplices.
C7_Witness ==
  /\ call.op = "expand"
  /\ \E i \in 1..Len(out) : \E j \in 1..Len(K) :
       /\ Cardinality(out[i].vertices) = 3
       /\ K[j].vertices = out[i].vertices
       /\ K[j].data # DefaultData
  /\ \E i \in 1..Len(out) : \E j \in 1..Len(K) :
       /\ Cardinality(out[i].vertices) = 2
       /\ K[j].vertices = out[i].vertices
       /\ K[j].data # DefaultData

(***************************************************************************)
(* C8: no validation call faults, on any tree, the empty tree included.    *)
(***************************************************************************)
C8_ValidationNeverFaults == ret.fault = FALSE

(***************************************************************************)
(* C9: on a non-empty tree of any shape and levels isValid() returns true  *)
(* exactly when the level, covering and separating invariants all hold,    *)
(* and the call leaves the tree as it was.                                 *)
(***************************************************************************)
C9_IsValidIffInvariants ==
  /\ [](ret.op = "isValid" =>
          /\ ret.fault = FALSE
          /\ ret.value = (/\ LevelInvariant(root[1])
                          /\ CoveringInvariant(root[1])
                          /\ SeparatingInvariant(root[1])))
  /\ [][ret'.op = "isValid" => root' = root]_vars

\* isValid() returned false on a tree whose only flaw is a pair of siblings
\* exactly at the separating distance of their parent.
C9_Witness ==
  /\ ret.op = "isValid"
  /\ ret.value = FALSE
  /\ LevelInvariant(root[1])
  /\ CoveringInvariant(root[1])
  /\ \E n \in Parents(root[1]) : \E i, j \in 1..Len(n.children) :
       /\ i # j
       /\ Metric(n.children[i].point, n.children[j].point) * powReal(n.level - 1)[2]
            = powReal(n.level - 1)[1]

(***************************************************************************)
(* C10: after inserting 0, 10, 20 into the empty tree isValid() is true.   *)
(***************************************************************************)
C10_ScenarioA ==
  (inserted = <<0, 10, 20>> /\ ret.op = "isValid") =>
    (ret.fault = FALSE /\ ret.value = TRUE)

\* The tree of the scenario: 10 at the root, raised to level 4, above the
\* leaves 0 and 20.
C10_Witness ==
  /\ inserted = <<0, 10, 20>>
  /\ ret.op = "isValid"
  /\ root[1].point = 10
  /\ root[1].level = 4
  /\ Len(root[1].children) = 2

(***************************************************************************)
(* C11: the triangle graph on {1, 2, 3} with its three edges, expanded to  *)
(* dimension 2, gives exactly 7 simplices: the 3 vertices, the 3 edges and *)
(* the triangle {1, 2, 3}.                                                 *)
(***************************************************************************)
C11_ScenarioB ==
  (/\ call.op = "expand"
   /\ call.dimension = 2
   /\ {K[i].vertices : i \in 1..Len(K)} = {{1}, {2}, {3}, {1, 2}, {2, 3}, {1, 3}}) =>
    /\ Len(out) = 7
    /\ {out[i].vertices : i \in 1..Len(out)}
         = {{1}, {2}, {3}, {1, 2}, {2, 3}, {1, 3}, {1, 2, 3}}

C11_Witness ==
  /\ call.op = "expand"
  /\ call.dimension = 2
  /\ {K[i].vertices : i \in 1..Len(K)} = {{1}, {2}, {3}, {1, 2}, {2, 3}, {1, 3}}
  /\ \E i \in 1..Len(out) : out[i].vertices = {1, 2, 3}

\* The tree before the last insert call, and the point of that call.
Before == Build(SubSeq(inserted, 1, Len(inserted) - 1))
LastPoint == inserted[Len(inserted)]

\* The last call was an insert that took the branch d > coveringDistance()
\* of Node::insert.
GrewRoot ==
  /\ ret.op = "insert"
  /\ Len(inserted) >= 2
  /\ Greater(Metric(Before[1].point, LastPoint), coveringDistance(Before[1]))

\* The roots the level-raising loop of the last insert call went through.
LoopTrace == IF GrewRoot THEN raiseTrace(Before[1], LastPoint) ELSE <<>>

\* The leaves the search of lines 103-134 assigns to `leaf`, in the order in
\* which it assigns them, as paths.
RECURSIVE leavesFound(_, _)
leavesFound(tree, stack) ==
  IF stack = <<>> THEN <<>>
  ELSE
    LET path   == stack[Len(stack)]
        rest   == SubSeq(stack, 1, Len(stack) - 1)
        kids   == NodeAt(tree, path).children
        leaves == {i \in 1..Len(kids) : isLeaf(kids[i])}
        stop   == IF leaves = {} THEN Len(kids) + 1 ELSE Min(leaves)
        pushed == [i \in 1..(stop - 1) |-> Append(path, i)]
    IN (IF leaves = {} THEN <<>> ELSE <<Append(path, stop)>>)
         \o leavesFound(tree, rest \o pushed)

Last(seq) == seq[Len(seq)]

(***************************************************************************)
(* C12, as claimed: in every iteration of the level-raising loop on a root *)
(* with children the leaf detached and promoted is the first leaf the      *)
(* search finds.  Violated: the break leaves the scan of one node only,    *)
(* and a leaf found under a node popped later replaces the first.          *)
(***************************************************************************)
C12_FirstLeafPromoted ==
  \A k \in 1..(Len(LoopTrace) - 1) :
    ~isLeaf(LoopTrace[k]) =>
      LoopTrace[k + 1]
        = promoteLeaf(LoopTrace[k], Head(leavesFound(LoopTrace[k], << <<>> >>)))

(***************************************************************************)
(* C12, as the code has it: in every iteration of the level-raising loop   *)
(* on a root with children the search finds at least one leaf, and the     *)
(* leaf detached and promoted is the last leaf the search finds.           *)
(***************************************************************************)
C12_LastLeafPromoted ==
  \A k \in 1..(Len(LoopTrace) - 1) :
    ~isLeaf(LoopTrace[k]) =>
      /\ leavesFound(LoopTrace[k], << <<>> >>) # <<>>
      /\ LoopTrace[k + 1]
           = promoteLeaf(LoopTrace[k], Last(leavesFound(LoopTrace[k], << <<>> >>)))
      /\ root[1] = promote(Last(LoopTrace), LastPoint)

\* The last insert ran an iteration in which the search found two leaves
\* holding different points.
C12_Witness ==
  \E k \in 1..(Len(LoopTrace) - 1) :
    LET found == leavesFound(LoopTrace[k], << <<>> >>)
    IN /\ ~isLeaf(LoopTrace[k])
       /\ Len(found) >= 2
       /\ NodeAt(LoopTrace[k], Head(found)).point
            # NodeAt(LoopTrace[k], Last(found)).point

\* The last call was an insert that took the branch d <= coveringDistance()
\* of Node::insert.
WithinCover ==
  /\ ret.op = "insert"
  /\ Len(inserted) >= 2
  /\ LessEq(Metric(Before[1].point, LastPoint), coveringDistance(Before[1]))

\* The children of a node that cover a point, by index.
Covering(node, p) ==
  {i \in 1..Len(node.children) :
     LessEq(Metric(node.children[i].point, p), powReal(node.children[i].level))}

\* The path from a node that moves, at each node, to the first child in
\* stored order that covers the point, until no child does.
RECURSIVE DescentPath(_, _)
DescentPath(node, p) ==
  IF Covering(node, p) = {} THEN <<>>
  ELSE <<Min(Covering(node, p))>>
         \o DescentPath(node.children[Min(Covering(node, p))], p)

\* The tree with one more last child below the node at a path.
RECURSIVE WithChildAt(_, _, _)
WithChildAt(node, path, child) ==
  IF path = <<>> THEN [node EXCEPT !.children = Append(@, child)]
  ELSE [node EXCEPT !.children[Head(path)] = WithChildAt(@, Tail(path), child)]

(***************************************************************************)
(* C13: an insert of a point within the root's covering distance adds one  *)
(* leaf holding the point, as the last child of the node at the end of the *)
(* path that moves to the first covering child at each node, one level     *)
(* below that node, and changes nothing else in the tree.                  *)
(***************************************************************************)
C13_DescentAddsOneLeaf ==
  WithinCover =>
    LET path   == DescentPath(Before[1], LastPoint)
        parent == NodeAt(Before[1], path)
    IN root[1] = WithChildAt(Before[1], path, Node(LastPoint, parent.level - 1))

\* The point went two levels down, past a first child that covers it while a
\* later child of the same node covers it too and is nearer.
C13_Witness ==
  /\ WithinCover
  /\ \E k \in 1..Len(DescentPath(Before[1], LastPoint)) :
       LET path == DescentPath(Before[1], LastPoint)
           node == NodeAt(Before[1], SubSeq(path, 1, k - 1))
       IN /\ Len(path) >= 2
          /\ \E j \in Covering(node, LastPoint) :
               /\ j > path[k]
               /\ Metric(node.children[j].point, LastPoint)
                    < Metric(node.children[path[k]].point, LastPoint)

(***************************************************************************)
(* C14: after an insert, into a non-empty tree, of a point farther from    *)
(* the root than the root's covering distance, the root holds the point    *)
(* and has exactly one child, one level below it, whose point is within    *)
(* twice the child's covering distance of the inserted point.              *)
(***************************************************************************)
C14_FarPointBecomesRoot ==
  GrewRoot =>
    /\ root[1].point = LastPoint
    /\ Len(root[1].children) = 1
    /\ root[1].children[1].level = root[1].level - 1
    /\ LessEq(Metric(LastPoint, root[1].children[1].point),
              Twice(powReal(root[1].children[1].level)))

\* The loop ran at least twice and promoted a leaf on the way.
C14_Witness ==
  /\ GrewRoot
  /\ Len(LoopTrace) >= 3
  /\ \E k \in 1..(Len(LoopTrace) - 1) : ~isLeaf(LoopTrace[k])
  /\ root[1].point = LastPoint

\* A sequence without its i-th entry, the others in their order.
Skip(seq, i) == [j \in 1..(Len(seq) - 1) |-> IF j < i THEN seq[j] ELSE seq[j + 1]]

\* The tree without the node at a path (of length >= 1), all else as it was.
RECURSIVE Detached(_, _)
Detached(node, path) ==
  [point    |-> node.point,
   level    |-> node.level,
   children |-> IF Len(path) = 1 THEN Skip(node.children, path[1])
                ELSE [j \in 1..Len(node.children) |->
                        IF j = path[1] THEN Detached(node.children[j], Tail(path))
                        ELSE node.children[j]]]

\* How many nodes of a tree hold a point.
Holding(node, pt) == Cardinality({q \in Paths(node) : NodeAt(node, q).point = pt})

(***************************************************************************)
(* C15: a leaf-promotion step of the growth loop takes one leaf out of its *)
(* parent's child list, the siblings keeping their order, and puts a root  *)
(* with the leaf's point one level above the previous root, whose only     *)
(* child is the previous root with its point, its level and its remaining  *)
(* children as they were; the number of nodes and the multiset of points   *)
(* stay the same.                                                          *)
(***************************************************************************)
C15_PromotionFrame ==
  \A k \in 1..(Len(LoopTrace) - 1) :
    ~isLeaf(LoopTrace[k]) =>
      LET old == LoopTrace[k]
          new == LoopTrace[k + 1]
      IN /\ \E q \in Paths(old) :
              /\ q # <<>>
              /\ isLeaf(NodeAt(old, q))
              /\ new = [point    |-> NodeAt(old, q).point,
                        level    |-> old.level + 1,
                        children |-> <<Detached(old, q)>>]
         /\ Cardinality(Paths(new)) = Cardinality(Paths(old))
         /\ \A pt \in Points : Holding(new, pt) = Holding(old, pt)

\* A step that promoted a leaf from below a child of the root, the leaf
\* having a sibling after it.
C15_Witness ==
  \E k \in 1..(Len(LoopTrace) - 1) :
    /\ ~isLeaf(LoopTrace[k])
    /\ LET q == Last(leavesFound(LoopTrace[k], << <<>> >>))
       IN /\ Len(q) >= 2
          /\ Len(NodeAt(LoopTrace[k], SubSeq(q, 1, Len(q) - 1)).children) > Last(q)

\* The least level L >= L0 with d <= 2 * coveringConstant^L.
LeastLevel(d, L0) ==
  CHOOSE L \in L0..(L0 + d) :
    /\ LessEq(d, Twice(powReal(L)))
    /\ \A M \in L0..(L - 1) : ~LessEq(d, Twice(powReal(M)))

(***************************************************************************)
(* C16: an insert into a tree of one node q (at level L0) of a point p     *)
(* farther from q than q's covering distance gives the root p at level     *)
(* L + 1 with the single childless child q at level L, L being the least   *)
(* level >= L0 with d(q, p) <= 2 * coveringConstant^L.                     *)
(***************************************************************************)
C16_SingleNodeGrowth ==
  (Len(inserted) = 2 /\ GrewRoot /\ isLeaf(Before[1])) =>
    LET q == Before[1]
        L == LeastLevel(Metric(q.point, LastPoint), q.level)
    IN root[1] = [point    |-> LastPoint,
                  level    |-> L + 1,
                  children |-> <<[point |-> q.point, level |-> L, children |-> <<>>]>>]

\* The level of the single node was raised at least three times.
C16_Witness ==
  /\ Len(inserted) = 2
  /\ GrewRoot
  /\ isLeaf(Before[1])
  /\ root[1].children[1].level >= Before[1].level + 3

(***************************************************************************)
(* C17: the first insert makes its point, whatever it is, the root at      *)
(* level 0 without children, and level() returns 0 before and after it.    *)
(***************************************************************************)
C17_FirstInsert ==
  /\ Len(inserted) = 1 =>
       root = <<[point |-> inserted[1], level |-> 0, children |-> <<>>]>>
  /\ (ret.op = "level" /\ Len(inserted) <= 1) =>
       (ret.fault = FALSE /\ ret.value = 0)

\* level() was called after the first insert, of a point other than 0.
C17_Witness ==
  /\ inserted = <<20>>
  /\ ret.op = "level"
  /\ ret.value = 0
  /\ root[1].point = 20

(***************************************************************************)
(* CoverTree::insert with Node::insert taken one iteration of its loop at  *)
(* a time.  The call works on the tree in place; `call` holds the point    *)
(* and the position of the call: "loop" at the test of                     *)
(* while( d > 2 * coveringDistance() ), "descend" at the entry of insert_  *)
(* on the node at `path`, "done" after the return.  The next call starts   *)
(* when the last one has returned.                                         *)
(***************************************************************************)
InLoop == call.op = "insert" /\ call.pc = "loop"
InDescent == call.op = "insert" /\ call.pc = "descend"
Done == call.op = "insert" /\ call.pc = "done"

\* No call is running and another one may be made.
Idle == (call = NoCall \/ Done) /\ Len(inserted) < MaxLoopInserts

\* if( !_root ) _root = new Node( p, 0 )
InsertFirst(p) ==
  /\ Idle
  /\ root = <<>>
  /\ root' = <<Node(p, 0)>>
  /\ inserted' = Append(inserted, p)
  /\ ret' = Returned("insert", TRUE)
  /\ call' = [op |-> "insert", p |-> p, pc |-> "done", path |-> <<>>]
  /\ UNCHANGED <<K, out>>

\* d > coveringDistance(): the call enters the growth branch.
EnterGrowth(p) ==
  /\ Idle
  /\ root # <<>>
  /\ Greater(Metric(root[1].point, p), coveringDistance(root[1]))
  /\ call' = [op |-> "insert", p |-> p, pc |-> "loop", path |-> <<>>]
  /\ UNCHANGED <<root, inserted, ret, K, out>>

\* d <= coveringDistance(): return insert_( p ), entered on the root.
EnterDescent(p) ==
  /\ Idle
  /\ root # <<>>
  /\ ~Greater(Metric(root[1].point, p), coveringDistance(root[1]))
  /\ call' = [op |-> "insert", p |-> p, pc |-> "descend", path |-> <<>>]
  /\ UNCHANGED <<root, inserted, ret, K, out>>

\* A descent that calls insert_ on the node it is at again.
descendStaying(path, node, p) == path

\* child->insert_( p ) on the first child that covers the point: the path of
\* the node the next call of insert_ runs on.
descend(path, node, p) == Append(path, Min(Covering(node, p)))

\* insert_ finds a child that covers the point and calls itself on it.
DescendStep ==
  /\ InDescent
  /\ Covering(NodeAt(root[1], call.path), call.p) # {}
  /\ call' = [call EXCEPT !.path = descend(@, NodeAt(root[1], call.path), call.p)]
  /\ UNCHANGED <<root, inserted, ret, K, out>>

\* No child covers the point: it becomes a new last child; every call of
\* insert_ returns.
DescendExit ==
  /\ InDescent
  /\ Covering(NodeAt(root[1], call.path), call.p) = {}
  /\ root' = <<WithChildAt(root[1], call.path,
                           Node(call.p, NodeAt(root[1], call.path).level - 1))>>
  /\ inserted' = Append(inserted, call.p)
  /\ ret' = Returned("insert", TRUE)
  /\ call' = [call EXCEPT !.pc = "done", !.path = <<>>]
  /\ UNCHANGED <<K, out>>

\* One iteration of the loop.
LoopStep ==
  /\ InLoop
  /\ Greater(Metric(root[1].point, call.p), Twice(coveringDistance(root[1])))
  /\ root[1].level < MaxLevel
  /\ root' = <<raiseStep(root[1])>>
  /\ UNCHANGED <<inserted, ret, K, out, call>>

\* The loop condition fails: the point becomes the root, the call returns.
LoopExit ==
  /\ InLoop
  /\ ~Greater(Metric(root[1].point, call.p), Twice(coveringDistance(root[1])))
  /\ root' = <<promote(root[1], call.p)>>
  /\ inserted' = Append(inserted, call.p)
  /\ ret' = Returned("insert", TRUE)
  /\ call' = [call EXCEPT !.pc = "done"]
  /\ UNCHANGED <<K, out>>

NextLoop ==
  \/ \E p \in Points : InsertFirst(p)
  \/ \E p \in Points : EnterGrowth(p)
  \/ \E p \in Points : EnterDescent(p)
  \/ LoopStep
  \/ LoopExit
  \/ DescendStep
  \/ DescendExit

\* ENABLED <<LoopStep>>_vars as a state predicate: the loop condition holds
\* and the iteration changes the tree.
LoopStepEnabled ==
  /\ InLoop
  /\ Greater(Metric(root[1].point, call.p), Twice(coveringDistance(root[1])))
  /\ root[1].level < MaxLevel
  /\ <<raiseStep(root[1])>> # root

\* WF_vars(LoopStep), with ENABLED <<LoopStep>>_vars written out.
LoopStepFairness == []<>(~LoopStepEnabled) \/ []<><<LoopStep>>_vars

\* ENABLED <<DescendStep>>_vars as a state predicate.
DescendStepEnabled ==
  /\ InDescent
  /\ Covering(NodeAt(root[1], call.path), call.p) # {}
  /\ descend(call.path, NodeAt(root[1], call.path), call.p) # call.path

\* WF_vars(DescendStep), with ENABLED <<DescendStep>>_vars written out.
DescendStepFairness == []<>(~DescendStepEnabled) \/ []<><<DescendStep>>_vars

\* A call that has started keeps running.
SpecLoop ==
  /\ Init /\ [][NextLoop]_vars
  /\ LoopStepFairness /\ WF_vars(LoopExit)
  /\ DescendStepFairness /\ WF_vars(DescendExit)

(***************************************************************************)
(* C18: the level-raising loop of Node::insert terminates and the call     *)
(* completes; at every iteration on a root with children the search finds  *)
(* a leaf below its parent (the asserts on leaf and parent hold).          *)
(***************************************************************************)
C18_LoopTerminates ==
  /\ [](InLoop /\ ~isLeaf(root[1]) =>
          LET found == findLeaf(root[1], << <<>> >>, <<>>)
          IN /\ found # <<>>
             /\ Len(found[1]) >= 1
             /\ found[1] \in Paths(root[1])
             /\ isLeaf(NodeAt(root[1], found[1])))
  /\ [](Done => root = Build(inserted))
  /\ (InLoop ~> Done)

\* A call that has completed after its loop promoted a leaf twice.
C18_Witness ==
  /\ Done
  /\ Len(LoopTrace) >= 3
  /\ ~isLeaf(LoopTrace[1])
  /\ ~isLeaf(LoopTrace[2])

\* The running or returned call has a point at distance 0 from a point that
\* was stored before it.
DuplicateCall ==
  /\ call.op = "insert"
  /\ \E i \in 1..Len(inserted) :
       /\ Metric(inserted[i], call.p) = 0
       /\ Done => i < Len(inserted)

(***************************************************************************)
(* C19, as claimed: an insert of a point at distance 0 from a stored point *)
(* never returns.  Violated: the descent moves one level down with every   *)
(* call of insert_ and ends at a node without a covering child.            *)
(***************************************************************************)
C19_DuplicateInsertNeverReturns == ~(Done /\ DuplicateCall)

(***************************************************************************)
(* C19, as the code has it: an insert of a point at distance 0 from a      *)
(* stored point returns, and the tree then holds the point once more than  *)
(* before, as often as it was inserted.                                    *)
(***************************************************************************)
C19_DuplicateInsertReturns ==
  /\ ((DuplicateCall /\ ~Done) ~> Done)
  /\ []((Done /\ DuplicateCall) =>
          /\ Holding(root[1], call.p) = Count(inserted, call.p)
          /\ Cardinality(Paths(root[1])) = Len(inserted))

\* A duplicate was added by a descent that passed a node holding the same
\* point and went on below it.
C19_Witness ==
  /\ Done
  /\ DuplicateCall
  /\ WithinCover
  /\ Len(DescentPath(Before[1], LastPoint)) >= 2
  /\ \E k \in 1..(Len(DescentPath(Before[1], LastPoint)) - 1) :
       NodeAt(Before[1], SubSeq(DescentPath(Before[1], LastPoint), 1, k)).point
         = LastPoint

\* The entries of a neighbour map as pairs <<n, v>>, n being filed under v.
Entries(map) == UNION {{<<n, v>> : n \in map[v]} : v \in DOMAIN map}

(***************************************************************************)
(* C20: n is in lowerNeighbours[v] exactly when n < v and {n, v} is an     *)
(* edge of K: each edge gives exactly one entry, under its larger one.     *)
(***************************************************************************)
C20_LowerNeighbours ==
  call.op = "expand" =>
    LET lowerNeighbours == getLowerNeighbours(K)
        U == VertexSet(K) \cup DOMAIN lowerNeighbours
               \cup UNION {lowerNeighbours[v] : v \in DOMAIN lowerNeighbours}
    IN /\ \A n, v \in U :
            (v \in DOMAIN lowerNeighbours /\ n \in lowerNeighbours[v])
              <=> (n < v /\ {n, v} \in EdgeSet(K))
       /\ Cardinality(Entries(lowerNeighbours)) = Cardinality(EdgeSet(K))
       /\ \A e \in EdgeSet(K) :
            Cardinality({x \in Entries(lowerNeighbours) : {x[1], x[2]} = e}) = 1

\* The path 1 - 3 - 2 plus the edge {3, 4}: 3 has the lower neighbours 1 and
\* 2, 4 has 3, and neither 1 nor 2 is a key.
C20_Witness ==
  /\ call.op = "expand"
  /\ EdgeSet(K) = {{1, 3}, {2, 3}, {3, 4}}
  /\ DOMAIN getLowerNeighbours(K) = {3, 4}
  /\ getLowerNeighbours(K)[3] = {1, 2}
  /\ getLowerNeighbours(K)[4] = {3}

(***************************************************************************)
(* One RipsExpander object called several times, on complexes the caller   *)
(* passes by const reference.  The class has no data members: a call       *)
(* leaves nothing behind but its result, which the caller holds until the  *)
(* next call returns.  The calls are on the graphs on WVertices and on the *)
(* complete graph on 1..MaxVertex.                                         *)
(***************************************************************************)
CallGraphs ==
  {SumWeighted(SS) : SS \in Skeletons(WVertices, "none")}
    \cup {SumWeighted({{v} : v \in 1..MaxVertex} \cup Pairs(1..MaxVertex))}

InitCalls ==
  /\ root = <<>>
  /\ inserted = <<>>
  /\ ret = Returned("new", TRUE)
  /\ K \in CallGraphs
  /\ out = NoComplex
  /\ call = [op |-> "passed", dimension |-> 0, calls |-> 0]

\* operator()( K, dimension ) runs and returns.
ExpandCall ==
  \E dim \in 0..MaxDim : \E order \in Orders(vertices(K)) :
    /\ call.op = "passed"
    /\ out' = expand(K, dim, order)
    /\ call' = [op |-> "expand", dimension |-> dim, calls |-> call.calls + 1]
    /\ UNCHANGED <<root, inserted, ret, K>>

\* The caller takes another complex for the next call.
Pass ==
  \E C \in CallGraphs :
    /\ call.op = "expand"
    /\ call.calls < MaxCalls
    /\ K' = C
    /\ call' = [call EXCEPT !.op = "passed"]
    /\ UNCHANGED <<root, inserted, ret, out>>

NextCalls == ExpandCall \/ Pass

SpecCalls == InitCalls /\ [][NextCalls]_vars

\* The simplices of a complex with their weights, as a set.
Simplices(C) == {C[i] : i \in 1..Len(C)}

(***************************************************************************)
(* C21: the simplices and weights operator() returns are those of the      *)
(* expansion of K to the dimension asked for under any iteration order of  *)
(* the neighbour sets, whatever calls were made before, and the call       *)
(* leaves K as it was.                                                     *)
(***************************************************************************)
C21_ExpandIsAFunction ==
  /\ [](call.op = "expand" =>
          \A order \in Orders(vertices(K)) :
            Simplices(out) = Simplices(expand(K, call.dimension, order)))
  /\ [][call'.op = "expand" => K' = K]_vars

\* A second call, on the complete graph on four vertices: the neighbour set
\* of 4 holds three vertices, and the result has the four triangles.
C21_Witness ==
  /\ call.op = "expand"
  /\ call.calls = 2
  /\ call.dimension = 2
  /\ Cardinality(EdgeSet(K)) = 6
  /\ getLowerNeighbours(K)[4] = {1, 2, 3}
  /\ Cardinality({i \in 1..Len(out) : dimension(out[i]) = 2}) = 4

\* The step is an insert call on a tree with a root, of a point within the
\* covering distance of the root or beyond it.
InsertWithin ==
  /\ root # <<>>
  /\ inserted' # inserted
  /\ LessEq(Metric(root[1].point, inserted'[Len(inserted')]), coveringDistance(root[1]))

InsertBeyond ==
  /\ root # <<>>
  /\ inserted' # inserted
  /\ Greater(Metric(root[1].point, inserted'[Len(inserted')]), coveringDistance(root[1]))

(***************************************************************************)
(* C22: no step lowers the level of the root, which is what level()        *)
(* returns; an insert of a point within the covering distance of the root  *)
(* leaves the root's point and level as they were, and an insert of a      *)
(* point beyond it leaves the root at a higher level.                      *)
(***************************************************************************)
C22_RootLevelNeverDecreases ==
  /\ []((ret.op = "level" /\ ~ret.fault) => ret.value = level(root))
  /\ [][/\ level(root') >= level(root)
        /\ InsertWithin => /\ root'[1].point = root[1].point
                           /\ root'[1].level = root[1].level
        /\ InsertBeyond => root'[1].level > root[1].level]_vars

\* level() was called after four inserts: the second left the level of the
\* root as it was, the third and the fourth each raised it.
C22_Witness ==
  /\ ret.op = "level"
  /\ Len(inserted) = 4
  /\ ret.value > level(Build(SubSeq(inserted, 1, 3)))
  /\ level(Build(SubSeq(inserted, 1, 3))) > level(Build(SubSeq(inserted, 1, 2)))
  /\ level(Build(SubSeq(inserted, 1, 2))) = level(Build(SubSeq(inserted, 1, 1)))

(***************************************************************************)
(* CoverTree::isHarmonic                                                   *)
(***************************************************************************)
\* The while loop over `current` (lines 607-636): the distance to a node
\* that covers p is recorded, and the walk goes on in the first child that
\* covers p until no child does.
RECURSIVE harmonicWalk(_, _, _)
harmonicWalk(current, p, distances) ==
  LET d    == Metric(p, current.point)
      seen == IF LessEq(d, coveringDistance(current))
                THEN Append(distances, d) ELSE distances
  IN IF Covering(current, p) = {}
       THEN [current |-> current, distances |-> seen]
       ELSE harmonicWalk(current.children[Min(Covering(current, p))], p, seen)

\* std::is_sorted( rbegin, rend, std::less_equal ): no element is followed,
\* from the back, by one that is less than or equal to it.
sortedFromBack(distances) ==
  \A j \in 1..(Len(distances) - 1) : distances[j] > distances[j + 1]

\* *std::max_element( distances.begin(), distances.end() ), read only when
\* there are two distances or more.
maxElement(distances) ==
  IF distances = <<>> THEN 0 ELSE Max({distances[i] : i \in 1..Len(distances)})

\* while( maxDistance <= coveringDistance( l ) ) --l; ++l; for a positive
\* maxDistance.
RECURSIVE lowerLevel(_, _)
lowerLevel(maxDistance, l) ==
  IF LessEq(maxDistance, powReal(l)) THEN lowerLevel(maxDistance, l - 1) ELSE l + 1

\* allPoints.erase( std::remove( ..., current->_point ) ): every element
\* equal to the point goes.
erased(allPoints, point) ==
  LET Other(x) == x # point IN SelectSeq(allPoints, Other)

\* std::sort by descending distance from the point: the results the sort
\* may give, points at the same distance coming in any order.
sortedByDistance(allPoints, point) ==
  {s \in {[i \in 1..Len(allPoints) |-> allPoints[o[i]]] :
            o \in AllOrders(1..Len(allPoints))} :
     \A i \in 1..(Len(s) - 1) : Metric(point, s[i]) >= Metric(point, s[i + 1])}

\* insert( begin, end )
RECURSIVE insertAll(_, _)
insertAll(r, seq) ==
  IF seq = <<>> THEN r ELSE insertAll(insert(r, Head(seq)), Tail(seq))

\* The new root and the re-insertion of the sorted points (lines 688-691).
rebuilt(r, current, l, sorted) == insertAll(<<Node(current.point, l)>>, sorted)

(***************************************************************************)
(* A tree built by insert calls, then one call of isHarmonic.              *)
(***************************************************************************)
HarmonicInsert(p) ==
  /\ call = NoCall
  /\ Len(inserted) < MaxHarmonicInserts
  /\ root' = insert(root, p)
  /\ inserted' = Append(inserted, p)
  /\ ret' = Returned("insert", TRUE)
  /\ UNCHANGED <<K, out, call>>

\* The tree has no root: the loop is not entered, nothing is recorded.
HarmonicEmpty(p) ==
  /\ call = NoCall
  /\ root = <<>>
  /\ ret' = Returned("isHarmonic", TRUE)
  /\ call' = [op |-> "isHarmonic", p |-> p, pc |-> "done"]
  /\ UNCHANGED <<root, inserted, K, out>>

\* Fewer than two distances, or no lower level for the largest of them: the
\* tree stays.
HarmonicKeep(p) ==
  /\ call = NoCall
  /\ root # <<>>
  /\ LET walk == harmonicWalk(root[1], p, <<>>)
         far  == maxElement(walk.distances)
     IN /\ \/ Len(walk.distances) < 2
           \/ /\ far > 0
              /\ lowerLevel(far, level(root)) >= level(root)
        /\ ret' = Returned("isHarmonic", sortedFromBack(walk.distances))
  /\ call' = [op |-> "isHarmonic", p |-> p, pc |-> "done"]
  /\ UNCHANGED <<root, inserted, K, out>>

\* Two or more distances that are all 0: maxDistance <= coveringDistance( l )
\* holds for every l, and the loop that lowers l goes on.
HarmonicLowerForever(p) ==
  /\ call = NoCall
  /\ root # <<>>
  /\ LET walk == harmonicWalk(root[1], p, <<>>)
     IN /\ Len(walk.distances) >= 2
        /\ \A i \in 1..Len(walk.distances) : walk.distances[i] = 0
  /\ call' = [op |-> "isHarmonic", p |-> p, pc |-> "lower"]
  /\ UNCHANGED <<root, inserted, ret, K, out>>

\* l < level(): the last node of the walk becomes the root of a new tree at
\* level l, and the other points are inserted into it.
HarmonicRebuild(p) ==
  /\ call = NoCall
  /\ root # <<>>
  /\ LET walk == harmonicWalk(root[1], p, <<>>)
         far  == maxElement(walk.distances)
     IN /\ Len(walk.distances) >= 2
        /\ far > 0
        /\ lowerLevel(far, level(root)) < level(root)
        /\ \E sorted \in sortedByDistance(erased(points(root), walk.current.point),
                                          walk.current.point) :
             root' = rebuilt(root, walk.current, lowerLevel(far, level(root)), sorted)
        /\ ret' = Returned("isHarmonic", sortedFromBack(walk.distances))
  /\ call' = [op |-> "isHarmonic", p |-> p, pc |-> "done"]
  /\ UNCHANGED <<inserted, K, out>>

NextHarmonic ==
  \/ \E p \in Points : HarmonicInsert(p)
  \/ \E p \in Points : HarmonicEmpty(p)
  \/ \E p \in Points : HarmonicKeep(p)
  \/ \E p \in Points : HarmonicLowerForever(p)
  \/ \E p \in Points : HarmonicRebuild(p)

SpecHarmonic == Init /\ [][NextHarmonic]_vars

(***************************************************************************)
(* C23: when isHarmonic has returned, the tree stores every point as often *)
(* as it was inserted.                                                     *)
(***************************************************************************)
C23_IsHarmonicKeepsPoints ==
  (call.op = "isHarmonic" /\ call.pc = "done" /\ root # <<>>) =>
    /\ Len(points(root)) = Len(inserted)
    /\ \A pt \in Points : Count(points(root), pt) = Count(inserted, pt)

====
